---- MODULE Spec2Model ----
(***************************************************************************)
(* Model of the SmsAero asynchronous client (smsaero/__init__.py): the     *)
(* request/fallback engine, the response classification and the transport  *)
(* session of one client instance.                                          *)
(*                                                                         *)
(* JSON and Python values are modelled as strings: the JSON string "x" is   *)
(* the TLA+ string "x"; null/None, false and true are the strings JNull,    *)
(* JFalse and JTrue; a key that is missing from a mapping is Absent.        *)
(***************************************************************************)
EXTENDS Integers, Sequences, FiniteSets, TLC

VARIABLES
    gate,        \* self.__gate: None or a string (see "Gate strings")
    sess,        \* self.__sess: "none" (None), "open" or "closed"
    calls,       \* one record per logical call of request() on the client
    content,     \* a response body handed to check_response
    classified,  \* what check_response did with content (Pending before the call)
    opened,      \* number of aiohttp.ClientSession objects created so far
    closes,      \* number of calls of ClientSession.close() so far
    test,        \* self.__test
    scope,       \* position of an "async with" block on the client
    input,       \* the arguments of the function a pure-function specification applies
    output,      \* what that function did with them (Pending before the call)
    fields,      \* self.__user, self.__akey, self.__sign and self.__time
    cli          \* the command-line process (command_line.main_async)

vars == <<gate, sess, calls, content, classified, opened, closes, test, scope, input, output,
          fields, cli>>

-----------------------------------------------------------------------------
(* Bounds *)

\* Number of logical calls that may be in flight on the one client.
NumCalls == 2

\* Number of transport sessions one client creates in a behaviour.
MaxSessions == 2

Calls == 1..NumCalls

-----------------------------------------------------------------------------
(* Values *)

Absent == "<absent>"
JNull == "null"
JFalse == "false"
JTrue == "true"
None == JNull

\* Python truth value of a JSON value.
Truthy(v) == v \notin {JNull, JFalse, "", "0"}

\* dict.get(key): None when the key is missing.
Get(v) == IF v = Absent THEN None ELSE v

\* a or b
Or(a, b) == IF Truthy(a) THEN a ELSE b

Raise(kind, value) == [kind |-> kind, value |-> value]
Return(value) == [kind |-> "return", value |-> value]
Pending == [kind |-> "<pending>", value |-> ""]

\* The exception classes of the module: SmsAeroException and its subclasses.
ProviderErrors == {"SmsAeroException", "SmsAeroConnectionException", "SmsAeroNoMoneyException"}

-----------------------------------------------------------------------------
(* Response bodies *)

Body(isMapping, result, reason, success, message, data) ==
    [isMapping |-> isMapping, result |-> result, reason |-> reason,
     success |-> success, message |-> message, data |-> data]

\* A decoded JSON document that is not an object (a list, a string, null).
NonMapping == Body(FALSE, Absent, Absent, Absent, Absent, Absent)

ResultValues == {Absent, "no credits", "reject", "error"}
ReasonValues == {Absent, JNull, "test reason"}
SuccessValues == {Absent, JNull, JFalse, JTrue}
MessageValues == {Absent, JNull, "", "test message"}
DataValues == {Absent, JNull, JFalse, "payload"}

\* The response envelopes: JSON objects with any of the five fields.
Mappings ==
    { Body(TRUE, r, rs, s, m, d) :
        r \in ResultValues, rs \in ReasonValues, s \in SuccessValues,
        m \in MessageValues, d \in DataValues }

Bodies == Mappings \cup {NonMapping}

\* The envelopes the gateways of the request model answer with: every
\* combination of result, reason and success, with or without message and data.
GatewayBodies ==
    { b \in Mappings : b.message \in {Absent, "test message"} /\ b.data \in {Absent, "payload"} }

\* Mutant: the generic success test runs before the specific-error tests.
check_response_generic_first(c) ==
    IF ~c.isMapping THEN Raise("AttributeError", "get")
    ELSE IF ~Truthy(Get(c.success)) THEN
        Raise("SmsAeroException", Or(Get(c.message), "Unknown error"))
    ELSE IF Get(c.result) = "no credits" THEN Raise("SmsAeroNoMoneyException", c.result)
    ELSE IF Get(c.result) = "reject" THEN
        IF c.reason = Absent THEN Raise("KeyError", "reason")
        ELSE Raise("SmsAeroException", c.reason)
    ELSE Return(Get(c.data))

\* Mutant: content.get("message", "Unknown error"), the fallback only for a
\* missing key.
check_response_message_default(c) ==
    IF ~c.isMapping THEN Raise("AttributeError", "get")
    ELSE IF Get(c.result) = "no credits" THEN Raise("SmsAeroNoMoneyException", c.result)
    ELSE IF Get(c.result) = "reject" THEN
        IF c.reason = Absent THEN Raise("KeyError", "reason")
        ELSE Raise("SmsAeroException", c.reason)
    ELSE IF ~Truthy(Get(c.success)) THEN
        Raise("SmsAeroException", IF c.message = Absent THEN "Unknown error" ELSE c.message)
    ELSE Return(Get(c.data))

\* Mutant: content.get("data") or {}, a falsy payload replaced by an empty one.
check_response_data_or_empty(c) ==
    IF ~c.isMapping THEN Raise("AttributeError", "get")
    ELSE IF Get(c.result) = "no credits" THEN Raise("SmsAeroNoMoneyException", c.result)
    ELSE IF Get(c.result) = "reject" THEN
        IF c.reason = Absent THEN Raise("KeyError", "reason")
        ELSE Raise("SmsAeroException", c.reason)
    ELSE IF ~Truthy(Get(c.success)) THEN
        Raise("SmsAeroException", Or(Get(c.message), "Unknown error"))
    ELSE Return(Or(Get(c.data), "{}"))

check_response(c) ==
    IF ~c.isMapping THEN Raise("AttributeError", "get")
    ELSE IF Get(c.result) = "no credits" THEN Raise("SmsAeroNoMoneyException", c.result)
    ELSE IF Get(c.result) = "reject" THEN
        IF c.reason = Absent THEN Raise("KeyError", "reason")
        ELSE Raise("SmsAeroException", c.reason)
    ELSE IF ~Truthy(Get(c.success)) THEN
        Raise("SmsAeroException", Or(Get(c.message), "Unknown error"))
    ELSE Return(Get(c.data))

(***************************************************************************)
(* Python arguments.  A scalar argument is a record of its type and size:   *)
(* for an int the number of its decimal digits and its sign, for a str its  *)
(* length.  Phone numbers have up to 15 digits, so they are kept by digit    *)
(* count rather than by value.                                               *)
(***************************************************************************)
PyInt(neg, digits) == [type |-> "int", neg |-> neg, size |-> digits, truthy |-> TRUE]
PyZero == [type |-> "int", neg |-> FALSE, size |-> 1, truthy |-> FALSE]
PyStr(len) == [type |-> "str", neg |-> FALSE, size |-> len, truthy |-> len > 0]
\* str(True) = "True", str(False) = "False"
PyTrue == [type |-> "bool", neg |-> FALSE, size |-> 4, truthy |-> TRUE]
PyFalse == [type |-> "bool", neg |-> FALSE, size |-> 5, truthy |-> FALSE]

\* isinstance(x, int): bool is a subclass of int.
IsInt(x) == x.type \in {"int", "bool"}

\* len(str(x)): the minus sign of a negative int counts.
StrLen(x) == x.size + (IF x.neg THEN 1 ELSE 0)

\* The number argument of an endpoint: None, one scalar or a list of scalars.
NoNumber == [kind |-> "none", items |-> <<>>]
One(x) == [kind |-> "scalar", items |-> <<x>>]
ListOf(xs) == [kind |-> "list", items |-> xs]

\* Python truth value of a number argument.
NumberTruthy(n) ==
    \/ n.kind = "scalar" /\ n.items[1].truthy
    \/ n.kind = "list" /\ n.items # <<>>

\* A small int argument is kept by value in the size field.
PyNum(n) == [type |-> "int", neg |-> FALSE, size |-> n, truthy |-> n # 0]
\* True == 1
PyOne == [type |-> "bool", neg |-> FALSE, size |-> 1, truthy |-> TRUE]

\* None as an argument.
PyNone == [type |-> "NoneType", neg |-> FALSE, size |-> 4, truthy |-> FALSE]

\* A datetime.datetime (always truthy), and int(time.mktime(d.timetuple())),
\* the 10 digits of its epoch seconds.
PyDate == [type |-> "datetime", neg |-> FALSE, size |-> 0, truthy |-> TRUE]
Timestamp(d) == [type |-> "int", neg |-> FALSE, size |-> 10, truthy |-> TRUE]

\* A callback URL: its type and whether urlparse finds a scheme, a netloc
\* and a path in it.
Url(scheme, netloc, path) == [type |-> "str", scheme |-> scheme, netloc |-> netloc, path |-> path]
NoUrl == [type |-> "NoneType", scheme |-> FALSE, netloc |-> FALSE, path |-> FALSE]
UrlOther == [type |-> "int", scheme |-> FALSE, netloc |-> FALSE, path |-> FALSE]

\* The payload of a POST (json=data or {}).  A key the payload does not
\* have holds the Absent marker of its type.
AbsentKey == [type |-> "<absent>", neg |-> FALSE, size |-> 0, truthy |-> FALSE]
AbsentNumber == [kind |-> "<absent>", items |-> <<>>]
AbsentUrl == [type |-> "<absent>", scheme |-> FALSE, netloc |-> FALSE, path |-> FALSE]

EmptyData ==
    [text |-> AbsentKey, sign |-> AbsentKey, callbackUrl |-> AbsentUrl,
     number |-> AbsentNumber, numbers |-> AbsentNumber, dateSend |-> AbsentKey]

-----------------------------------------------------------------------------
(* Gateways and URLs *)

GATE_URLS == <<"@gate.smsaero.ru/v2/", "@gate.smsaero.org/v2/", "@gate.smsaero.net/v2/">>

(* Gate strings.  The value of url_gate / self.__gate is None, a string or a *)
(* value of another type.  A string is the sequence of its tokens: the      *)
(* characters "@", "/", "?" and "#" that check_and_format_user_gate and     *)
(* urlparse look at, the path segment "v2", and host names ("h",            *)
(* "local.host"), which hold none of these characters and no ":" or ";".    *)
NoGate == [kind |-> "none", chars |-> <<>>]
GateStr(chars) == [kind |-> "str", chars |-> chars]
GateOther == [kind |-> "other", chars |-> <<>>]

\* Python truth value of self.__gate: None and the empty string are falsy.
GateTruthy(g) == g.kind = "other" \/ (g.kind = "str" /\ g.chars # <<>>)

\* The string a token sequence stands for.
RECURSIVE Render(_)
Render(chars) == IF chars = <<>> THEN "" ELSE Head(chars) \o Render(Tail(chars))

StartsWith(seq, prefix) ==
    Len(seq) >= Len(prefix) /\ SubSeq(seq, 1, Len(prefix)) = prefix

EndsWith(seq, suffix) ==
    Len(seq) >= Len(suffix) /\ SubSeq(seq, Len(seq) - Len(suffix) + 1, Len(seq)) = suffix

\* Position of the first token of seq that is in set, Len(seq) + 1 if none.
FirstOf(seq, set) ==
    IF \E i \in 1..Len(seq) : seq[i] \in set
    THEN CHOOSE i \in 1..Len(seq) : seq[i] \in set /\ \A j \in 1..(i - 1) : seq[j] \notin set
    ELSE Len(seq) + 1

\* urllib.parse.urlparse of a string without ":" and ";": no scheme and no
\* params; the netloc follows a leading "//" up to the next "/", "?" or "#";
\* the fragment follows the first "#", the query the first "?" before it.
urlparse(url) ==
    LET hasNetloc == StartsWith(url, <<"/", "/">>)
        afterSlashes == IF hasNetloc THEN SubSeq(url, 3, Len(url)) ELSE url
        netlocEnd == FirstOf(afterSlashes, {"/", "?", "#"})
        netloc == IF hasNetloc THEN SubSeq(afterSlashes, 1, netlocEnd - 1) ELSE <<>>
        rest == IF hasNetloc THEN SubSeq(afterSlashes, netlocEnd, Len(afterSlashes)) ELSE url
        hash == FirstOf(rest, {"#"})
        fragment == SubSeq(rest, hash + 1, Len(rest))
        noFragment == SubSeq(rest, 1, hash - 1)
        mark == FirstOf(noFragment, {"?"})
        query == SubSeq(noFragment, mark + 1, Len(noFragment))
        path == SubSeq(noFragment, 1, mark - 1)
    IN [netloc |-> netloc, path |-> path, query |-> query, fragment |-> fragment]

\* ParseResult.geturl(): a non-empty netloc is written back after "//" and
\* the path is made absolute under it; an empty query or fragment is dropped.
geturl(p) ==
    LET underNetloc ==
            IF p.netloc # <<>>
            THEN <<"/", "/">> \o p.netloc
                 \o (IF p.path # <<>> /\ p.path[1] # "/" THEN <<"/">> ELSE <<>>) \o p.path
            ELSE p.path
        withQuery == IF p.query # <<>> THEN underNetloc \o <<"?">> \o p.query ELSE underNetloc
    IN IF p.fragment # <<>> THEN withQuery \o <<"#">> \o p.fragment ELSE withQuery

check_and_format_user_gate(g) ==
    IF ~GateTruthy(g) THEN g
    ELSE LET parsed == urlparse(g.chars)
             withAt == IF ~StartsWith(parsed.path, <<"@">>)
                       THEN [parsed EXCEPT !.path = <<"@">> \o @] ELSE parsed
             withV2 == IF EndsWith(withAt.path, <<"/", "v2">>)
                       THEN [withAt EXCEPT !.path = @ \o <<"/">>]
                       ELSE IF ~EndsWith(withAt.path, <<"/", "v2", "/">>)
                       THEN [withAt EXCEPT !.path = @ \o <<"/", "v2", "/">>]
                       ELSE withAt
         IN GateStr(geturl(withV2))

\* The gates of the clients of the request model: no override, or the
\* override "local.host" as the constructor leaves it.
UserGates == {NoGate, check_and_format_user_gate(GateStr(<<"local.host">>))}

\* Mutant: the override is used whenever it is not None.
get_gate_urls_not_none == IF gate # NoGate THEN <<Render(gate.chars)>> ELSE GATE_URLS

get_gate_urls == IF GateTruthy(gate) THEN <<Render(gate.chars)>> ELSE GATE_URLS

\* An optional page: <<>> is None, <<n>> is the int n.
NoPage == <<>>

\* The URL as its parts: protocol, gate fragment, selector and page query
\* (the query is left out when page is None or 0).
build_url(proto, selector, g, page) ==
    [proto |-> proto, gate |-> g, selector |-> selector,
     query |-> IF page # NoPage /\ page[1] # 0 THEN page ELSE <<>>]

-----------------------------------------------------------------------------
(* The request/fallback engine *)

DefaultProto == "http"

\* request(selector, data, page, proto): what callers pass.  Endpoint methods
\* pass no proto ("<default>"); a direct caller of request may pass one.
Envelopes ==
    { [selector |-> "auth", data |-> EmptyData, page |-> NoPage, proto |-> "<default>"],
      [selector |-> "sign/list", data |-> EmptyData, page |-> <<1>>, proto |-> "<default>"],
      [selector |-> "sms/send", data |-> EmptyData, page |-> NoPage, proto |-> "https"] }

Idle ==
    [pc |-> "idle", selector |-> "", data |-> EmptyData, page |-> NoPage, protoArg |-> "",
     proto |-> "", idx |-> 0, attempts |-> <<>>, body |-> <<>>, result |-> Pending]

Finish(cl, res) == [cl EXCEPT !.pc = "done", !.result = res]

\* Mutant: the selector of each attempt follows the test mode of the moment.
try_gate_current_mode(cl, s) ==
    LET now == CASE cl.selector \in {"sms/send", "sms/testsend"} ->
                        IF test THEN "sms/testsend" ELSE "sms/send"
                 [] OTHER -> cl.selector
    IN IF cl.idx > Len(get_gate_urls)
       THEN Finish(cl, Raise("SmsAeroConnectionException", "All gateways are unavailable"))
       ELSE IF s = "none"
       THEN Finish(cl, Raise("SmsAeroConnectionException", "Session is not initialized"))
       ELSE IF s = "closed"
       THEN Finish(cl, Raise("RuntimeError", "Session is closed"))
       ELSE [cl EXCEPT
               !.pc = "post",
               !.attempts = Append(@,
                   [idx |-> cl.idx,
                    url |-> build_url(cl.proto, now, get_gate_urls[cl.idx], cl.page),
                    data |-> cl.data,
                    timeout |-> fields.time,
                    outcome |-> "pending"])]

\* One pass of the loop body up to the suspension at the POST, or the end of
\* the loop: cl.idx is the position of the for-loop in the gateway list.
try_gate(cl, s) ==
    IF cl.idx > Len(get_gate_urls)
    THEN Finish(cl, Raise("SmsAeroConnectionException", "All gateways are unavailable"))
    ELSE IF s = "none"
    THEN Finish(cl, Raise("SmsAeroConnectionException", "Session is not initialized"))
    ELSE IF s = "closed"
    THEN Finish(cl, Raise("RuntimeError", "Session is closed"))
    ELSE [cl EXCEPT
            !.pc = "post",
            !.attempts = Append(@,
                [idx |-> cl.idx,
                 url |-> build_url(cl.proto, cl.selector, get_gate_urls[cl.idx], cl.page),
                 data |-> cl.data,
                 timeout |-> fields.time,
                 outcome |-> "pending"])]

\* Mutant: after a TLS failure the same gateway is tried once more over http.
on_ClientSSLError_retry_once(cl) ==
    IF cl.proto # "http" THEN [cl EXCEPT !.proto = "http"]
    ELSE [cl EXCEPT !.idx = @ + 1]

\* except aiohttp.ClientSSLError: proto = "http"; continue
on_ClientSSLError(cl) == [cl EXCEPT !.proto = "http", !.idx = @ + 1]

\* Mutant: the generic handler downgrades the protocol as the TLS handler does.
on_ClientError_downgrade(cl) == [cl EXCEPT !.proto = "http", !.idx = @ + 1]

\* Mutant: each gateway starts again from the protocol the call was given.
on_ClientError_reset(cl) ==
    [cl EXCEPT !.proto = IF cl.protoArg = "<default>" THEN DefaultProto ELSE cl.protoArg,
               !.idx = @ + 1]

\* except aiohttp.ClientError: continue
on_ClientError(cl) == [cl EXCEPT !.idx = @ + 1]

\* Mutant: a provider error is treated like a transport failure and the next
\* gateway is tried.
on_response_fallback(cl, b) ==
    IF check_response(b).kind \in ProviderErrors
    THEN try_gate([cl EXCEPT !.idx = @ + 1], sess)
    ELSE Finish([cl EXCEPT !.body = <<b>>], check_response(b))

\* json = await response.json(); return self.check_response(json)
on_response(cl, b) == Finish([cl EXCEPT !.body = <<b>>], check_response(b))

\* What a POST in flight can end with.  "ClientError" is a connection-level
\* failure (DNS, refused, disconnected); "ContentTypeError" is raised by
\* response.json() and is a ClientError; "TimeoutError" (the total timeout)
\* and "JSONDecodeError" are not aiohttp.ClientError subclasses.
Outcomes == {"ClientSSLError", "ClientError", "ContentTypeError",
             "TimeoutError", "JSONDecodeError", "json"}

Settle(cl, outcome) ==
    [cl EXCEPT !.attempts[Len(cl.attempts)].outcome = outcome]

init_session_effect(s) == IF s = "none" \/ s = "closed" THEN "open" ELSE s

\* Mutant: a new ClientSession on every call, whatever the state of the old one.
session_created_always(s) == 1

\* init_session creates a ClientSession exactly when it changes self.__sess.
session_created(s) == IF init_session_effect(s) # s THEN 1 ELSE 0

\* The await of init_session(), as a part of the action that makes it.
do_init_session ==
    /\ opened + session_created(sess) <= MaxSessions
    /\ sess' = init_session_effect(sess)
    /\ opened' = opened + session_created(sess)
    /\ closes' = closes

init_session ==
    /\ do_init_session
    /\ UNCHANGED <<fields, cli, gate, calls, content, classified, test, scope, input, output>>

\* Mutant: the session is closed again although it is closed already.
do_close_session_unguarded ==
    /\ sess' = IF sess # "none" THEN "closed" ELSE sess
    /\ closes' = IF sess # "none" THEN closes + 1 ELSE closes
    /\ opened' = opened

\* The await of close_session(), as a part of the action that makes it.
do_close_session ==
    /\ sess' = IF sess # "none" /\ sess # "closed" THEN "closed" ELSE sess
    /\ closes' = IF sess # "none" /\ sess # "closed" THEN closes + 1 ELSE closes
    /\ opened' = opened

close_session ==
    /\ do_close_session
    /\ UNCHANGED <<fields, cli, gate, calls, content, classified, test, scope, input, output>>

\* request() from its entry to the first suspension, as a part of the action
\* that calls it.
do_request(c, e) ==
    /\ calls[c].pc = "idle"
    /\ do_init_session
    /\ calls' = [calls EXCEPT ![c] =
            try_gate([Idle EXCEPT
                        !.selector = e.selector, !.data = e.data, !.page = e.page,
                        !.protoArg = e.proto,
                        !.proto = IF e.proto = "<default>" THEN DefaultProto ELSE e.proto,
                        !.idx = 1],
                     sess')]

request(c, e) ==
    /\ do_request(c, e)
    /\ UNCHANGED <<fields, cli, gate, content, classified, test, scope, input, output>>

\* Mutant: the gateway that answered becomes the gate of the client.
request_resume_pins_gate(c, outcome, b) ==
    /\ calls[c].pc = "post"
    /\ LET cl == Settle(calls[c], outcome) IN
        /\ calls' = [calls EXCEPT ![c] =
                CASE outcome = "ClientSSLError" -> try_gate(on_ClientSSLError(cl), sess)
                  [] outcome \in {"ClientError", "ContentTypeError"} ->
                        try_gate(on_ClientError(cl), sess)
                  [] outcome = "json" -> on_response(cl, b)
                  [] OTHER -> Finish(cl, Raise(outcome, ""))]
        /\ gate' = IF outcome = "json"
                   THEN GateStr(<<cl.attempts[Len(cl.attempts)].url.gate>>) ELSE gate
    /\ UNCHANGED <<fields, cli, sess, content, classified, opened, closes, test, scope,
                   input, output>>

\* Mutant: a call that ends with an exception closes the session.
request_resume_closes_on_failure(c, outcome, b) ==
    /\ calls[c].pc = "post"
    /\ LET cl == Settle(calls[c], outcome) IN
        calls' = [calls EXCEPT ![c] =
            CASE outcome = "ClientSSLError" -> try_gate(on_ClientSSLError(cl), sess)
              [] outcome \in {"ClientError", "ContentTypeError"} ->
                    try_gate(on_ClientError(cl), sess)
              [] outcome = "json" -> on_response(cl, b)
              [] OTHER -> Finish(cl, Raise(outcome, ""))]
    /\ IF calls'[c].pc = "done" /\ calls'[c].result.kind # "return"
       THEN do_close_session
       ELSE UNCHANGED <<sess, opened, closes>>
    /\ UNCHANGED <<fields, cli, gate, content, classified, test, scope, input, output>>

\* Mutant: the TLS downgrade is kept on the client, for every call.
request_resume_shared_downgrade(c, outcome, b) ==
    /\ calls[c].pc = "post"
    /\ LET cl == Settle(calls[c], outcome)
           shared == [d \in Calls |->
                        IF outcome = "ClientSSLError" /\ calls[d].pc = "post"
                        THEN [calls[d] EXCEPT !.proto = "http"] ELSE calls[d]]
       IN calls' = [shared EXCEPT ![c] =
            CASE outcome = "ClientSSLError" -> try_gate(on_ClientSSLError(cl), sess)
              [] outcome \in {"ClientError", "ContentTypeError"} ->
                    try_gate(on_ClientError(cl), sess)
              [] outcome = "json" -> on_response(cl, b)
              [] OTHER -> Finish(cl, Raise(outcome, ""))]
    /\ UNCHANGED <<fields, cli, gate, sess, content, classified, opened, closes, test, scope,
                   input, output>>

\* request() from the completion of a POST to the next suspension or its end.
request_resume(c, outcome, b) ==
    /\ calls[c].pc = "post"
    /\ LET cl == Settle(calls[c], outcome) IN
        calls' = [calls EXCEPT ![c] =
            CASE outcome = "ClientSSLError" -> try_gate(on_ClientSSLError(cl), sess)
              [] outcome \in {"ClientError", "ContentTypeError"} ->
                    try_gate(on_ClientError(cl), sess)
              [] outcome = "json" -> on_response(cl, b)
              [] OTHER -> Finish(cl, Raise(outcome, ""))]
    /\ UNCHANGED <<fields, cli, gate, sess, content, classified, opened, closes, test, scope, input, output>>

\* The caller takes the result (or the exception) of a finished call.
request_done(c) ==
    /\ calls[c].pc = "done"
    /\ calls' = [calls EXCEPT ![c] = Idle]
    /\ UNCHANGED <<fields, cli, gate, sess, content, classified, opened, closes, test, scope, input, output>>

\* The callers of Spec use the client one call at a time.
NoneInFlight == \A c \in Calls : calls[c].pc = "idle"

\* The variables of the pure-function specifications, where they are not used.
Unused ==
    /\ content = NonMapping
    /\ classified = Pending
    /\ input = <<>>
    /\ output = Pending

\* The fields of a client constructed with the default signature "Sms Aero"
\* and the default timeout, as SmsAero(email, api_key) is.
DefaultFields == [user |-> PyStr(16), akey |-> PyStr(32), sign |-> PyStr(8), time |-> PyNum(10)]

\* The command-line process has not been started.
NotRunning == [pc |-> "off", printed |-> "", raising |-> "", status |-> -1, closed |-> 0]

\* A client right after construction, before any use.
Fresh ==
    /\ fields = DefaultFields
    /\ cli = NotRunning
    /\ sess = "none"
    /\ opened = 0
    /\ closes = 0
    /\ calls = [c \in Calls |-> Idle]
    /\ scope = "out"

Init ==
    /\ gate \in UserGates
    /\ test = FALSE
    /\ Fresh
    /\ Unused

Next ==
    \/ init_session
    \/ close_session
    \/ \E c \in Calls, e \in Envelopes : NoneInFlight /\ request(c, e)
    \/ \E c \in Calls, b \in GatewayBodies : request_resume(c, "json", b)
    \/ \E c \in Calls : request_resume(c, "json", NonMapping)
    \/ \E c \in Calls, o \in Outcomes \ {"json"} : request_resume(c, o, NonMapping)
    \/ \E c \in Calls : request_done(c)

Spec == Init /\ [][Next]_vars

-----------------------------------------------------------------------------
(* Calls that run concurrently on one client: any call may start while      *)
(* others are suspended at their POST.                                       *)

\* What the concurrent callers pass: the default protocol and https.
ConcurrentEnvelopes == {e \in Envelopes : e.page = NoPage}

\* What a POST ends with here: a TLS error, a connection error, a response.
ConcurrentOutcomes == {"ClientSSLError", "ClientError"}

ConcurrentBodies ==
    {Body(TRUE, Absent, Absent, JTrue, Absent, "payload"),
     Body(TRUE, "no credits", Absent, JFalse, Absent, Absent)}

NextConcurrent ==
    \/ \E c \in Calls, e \in ConcurrentEnvelopes : request(c, e)
    \/ \E c \in Calls, b \in ConcurrentBodies : request_resume(c, "json", b)
    \/ \E c \in Calls, o \in ConcurrentOutcomes : request_resume(c, o, NonMapping)
    \/ \E c \in Calls : request_done(c)

SpecConcurrent == Init /\ [][NextConcurrent]_vars

-----------------------------------------------------------------------------
(* Progress of a call.  Every POST comes to an end: aiohttp completes it    *)
(* with a response or a transport failure, or fails it when the timeout      *)
(* self.__time has passed; the event loop then resumes the coroutine.        *)

\* The POST of call c ends, in any way it can.
post_ends(c) ==
    \/ \E b \in ConcurrentBodies \cup {NonMapping} : request_resume(c, "json", b)
    \/ \E o \in Outcomes \ {"json"} : request_resume(c, o, NonMapping)

NextFair ==
    \/ \E c \in Calls, e \in Envelopes : NoneInFlight /\ request(c, e)
    \/ \E c \in Calls : post_ends(c)
    \/ \E c \in Calls : request_done(c)

SpecFair == Init /\ [][NextFair]_vars /\ \A c \in Calls : WF_vars(post_ends(c))

-----------------------------------------------------------------------------
(* check_response on its own, over every body *)

classify ==
    /\ classified = Pending
    /\ classified' = check_response(content)
    /\ UNCHANGED <<fields, cli, gate, sess, calls, content, opened, closes, test, scope, input, output>>

InitClassify ==
    /\ gate = NoGate
    /\ test = FALSE
    /\ Fresh
    /\ content \in Bodies
    /\ classified = Pending
    /\ input = <<>>
    /\ output = Pending

SpecClassify == InitClassify /\ [][classify]_vars

MinPhoneLen == 7
MaxPhoneLen == 15

LengthInRange(x) == MinPhoneLen <= StrLen(x) /\ StrLen(x) <= MaxPhoneLen

phone_validation(number) ==
    IF number.kind = "none" \/ (number.kind = "scalar" /\ ~IsInt(number.items[1]))
    THEN Raise("TypeError", "number must be an integer or a list of integers")
    ELSE IF number.kind = "scalar" /\ ~LengthInRange(number.items[1])
    THEN Raise("ValueError", "Length of number must be between 7 and 15")
    ELSE IF number.kind = "list"
            /\ \E i \in 1..Len(number.items) : ~LengthInRange(number.items[i])
    THEN Raise("ValueError", "Length of each number in the list must be between 7 and 15")
    ELSE IF number.kind = "list"
            /\ \E i \in 1..Len(number.items) : ~IsInt(number.items[i])
    THEN Raise("ValueError", "Type of each number in the list must be integer")
    ELSE Return(None)

(***************************************************************************)
(* phone_validation on its own, over numbers around the length limits      *)
(***************************************************************************)
MaxListLen == 2

DigitCounts == {MinPhoneLen - 1, MinPhoneLen, MaxPhoneLen, MaxPhoneLen + 1}

PhoneScalars ==
    {PyInt(neg, d) : neg \in BOOLEAN, d \in DigitCounts}
        \cup {PyZero, PyTrue, PyFalse, PyStr(0), PyStr(MinPhoneLen)}

PhoneLists == UNION {[1..n -> PhoneScalars] : n \in 0..MaxListLen}

PhoneInputs == {NoNumber} \cup {One(x) : x \in PhoneScalars} \cup {ListOf(xs) : xs \in PhoneLists}

validate_phone ==
    /\ output = Pending
    /\ output' = phone_validation(input)
    /\ UNCHANGED <<fields, cli, gate, sess, calls, content, classified, opened, closes, test, scope, input>>

InitPhone ==
    /\ gate = NoGate
    /\ test = FALSE
    /\ Fresh
    /\ content = NonMapping
    /\ classified = Pending
    /\ input \in PhoneInputs
    /\ output = Pending

SpecPhone == InitPhone /\ [][validate_phone]_vars

(***************************************************************************)
(* Construction of a client: __init__ with init_validate and                *)
(* check_and_format_user_gate                                                *)
(***************************************************************************)
MinKeyLen == 16
MaxKeyLen == 32
MinSignatureLen == 2
TimeoutFloor == 2

\* Mutant: any timeout above zero is accepted.
init_validate_positive_timeout(a) ==
    IF a.api_key.type # "str" THEN Raise("TypeError", "API key must be a string.")
    ELSE IF ~(MinKeyLen <= a.api_key.size /\ a.api_key.size <= MaxKeyLen)
    THEN Raise("ValueError", "API key length must be between 20 and 32 characters.")
    ELSE IF a.signature.type # "str" THEN Raise("TypeError", "Signature must be a string.")
    ELSE IF a.signature.size < MinSignatureLen
    THEN Raise("ValueError", "Signature length must be at least 2 characters.")
    ELSE IF ~IsInt(a.timeout) THEN Raise("TypeError", "Timeout must be an integer.")
    ELSE IF a.timeout.size <= 0
    THEN Raise("ValueError", "Timeout must be a positive integer.")
    ELSE IF a.url_gate.kind \notin {"none", "str"}
    THEN Raise("TypeError", "URL gate must be a string.")
    ELSE IF a.test_mode.type # "bool" THEN Raise("TypeError", "Test mode must be a boolean.")
    ELSE Return(None)

init_validate(a) ==
    IF a.api_key.type # "str" THEN Raise("TypeError", "API key must be a string.")
    ELSE IF ~(MinKeyLen <= a.api_key.size /\ a.api_key.size <= MaxKeyLen)
    THEN Raise("ValueError", "API key length must be between 20 and 32 characters.")
    ELSE IF a.signature.type # "str" THEN Raise("TypeError", "Signature must be a string.")
    ELSE IF a.signature.size < MinSignatureLen
    THEN Raise("ValueError", "Signature length must be at least 2 characters.")
    ELSE IF ~IsInt(a.timeout) THEN Raise("TypeError", "Timeout must be an integer.")
    ELSE IF a.timeout.size <= TimeoutFloor
    THEN Raise("ValueError", "Timeout must be a positive integer.")
    ELSE IF a.url_gate.kind \notin {"none", "str"}
    THEN Raise("TypeError", "URL gate must be a string.")
    ELSE IF a.test_mode.type # "bool" THEN Raise("TypeError", "Test mode must be a boolean.")
    ELSE Return(None)

MaxGateLen == 5

GateTokens == {"h", "@", "/", "v2", "?", "#"}

GateStrings == {GateStr(chars) : chars \in UNION {[1..n -> GateTokens] : n \in 0..MaxGateLen}}

ValidArgs ==
    [api_key |-> PyStr(MaxKeyLen), signature |-> PyStr(MinSignatureLen),
     timeout |-> PyNum(TimeoutFloor + 1), url_gate |-> NoGate, test_mode |-> PyFalse]

\* Every combination of arguments around the limits of init_validate, and
\* the valid arguments with every gate string.
ConstructorArgs ==
    [api_key : {PyStr(MinKeyLen - 1), PyStr(MinKeyLen), PyStr(MaxKeyLen),
                PyStr(MaxKeyLen + 1), PyNum(MinKeyLen)},
     signature : {PyStr(MinSignatureLen - 1), PyStr(MinSignatureLen), PyNum(MinSignatureLen)},
     timeout : {PyNum(TimeoutFloor), PyNum(TimeoutFloor + 1), PyStr(TimeoutFloor + 1), PyOne},
     url_gate : {NoGate, GateOther, GateStr(<<"h">>)},
     test_mode : {PyFalse, PyTrue, PyZero}]
        \cup {[ValidArgs EXCEPT !.url_gate = g] : g \in GateStrings}

\* SmsAero(...): the fields are assigned, then init_validate raises or the
\* gate is formatted and the instance is returned.
construct ==
    /\ output = Pending
    /\ output' = init_validate(input)
    /\ gate' = IF output'.kind = "return" THEN check_and_format_user_gate(input.url_gate) ELSE gate
    /\ test' = IF output'.kind = "return" THEN input.test_mode.truthy ELSE test
    /\ fields' = IF output'.kind = "return"
                 THEN [fields EXCEPT !.akey = input.api_key, !.sign = input.signature,
                                     !.time = input.timeout]
                 ELSE fields
    /\ UNCHANGED <<cli, sess, calls, content, classified, opened, closes, scope, input>>

\* The longest gate the constructor can leave: "@", "/v2/" and the "/" under
\* a netloc are added to the override.
MaxFormattedLen == MaxGateLen + Len(<<"@", "/", "/", "v2", "/">>)

\* check_and_format_user_gate() called again on a constructed client (not
\* followed further once the gate has outgrown what the constructor leaves).
format_user_gate ==
    /\ output.kind = "return"
    /\ Len(gate.chars) <= MaxFormattedLen
    /\ gate' = check_and_format_user_gate(gate)
    /\ UNCHANGED <<fields, cli, sess, calls, content, classified, opened, closes, test, scope,
                   input, output>>

InitConstruct ==
    /\ gate = NoGate
    /\ test = FALSE
    /\ Fresh
    /\ content = NonMapping
    /\ classified = Pending
    /\ input \in ConstructorArgs
    /\ output = Pending

NextConstruct == construct \/ format_user_gate

SpecConstruct == InitConstruct /\ [][NextConstruct]_vars

-----------------------------------------------------------------------------
(* Properties of the request/fallback engine (checked under Spec) *)

Att(c) == calls[c].attempts

AllUnavailable == Raise("SmsAeroConnectionException", "All gateways are unavailable")

\* Failures of the transport, as opposed to a response that arrived.
TransportFailures == {"ClientSSLError", "ClientError", "TimeoutError"}

\* C1: when a POST attempt to gateway i fails with a TLS error, the next POST
\* attempt of the call targets the same gateway i with protocol http.
C1_TlsRetriesSameGateway ==
    \A c \in Calls : \A k \in 1..Len(Att(c)) :
        Att(c)[k].outcome = "ClientSSLError" =>
            /\ k < Len(Att(c))
            /\ Att(c)[k + 1].idx = Att(c)[k].idx
            /\ Att(c)[k + 1].url.gate = Att(c)[k].url.gate
            /\ Att(c)[k + 1].url.proto = "http"

C3_DecodedResponseEndsCall ==
    \A c \in Calls :
        /\ \A k \in 1..Len(Att(c)) :
            Att(c)[k].outcome = "json" =>
                /\ k = Len(Att(c))
                /\ calls[c].pc = "done"
                /\ Len(calls[c].body) = 1
                /\ calls[c].result = check_response(calls[c].body[1])
        /\ calls[c].body # <<>> =>
                /\ Len(Att(c)) >= 1
                /\ Att(c)[Len(Att(c))].outcome = "json"

C3_Witness ==
    \E c \in Calls :
        /\ calls[c].pc = "done"
        /\ Len(Att(c)) = 1
        /\ Att(c)[1].outcome = "json"
        /\ Len(get_gate_urls) > 1
        /\ calls[c].result = Raise("SmsAeroNoMoneyException", "no credits")

AllAttempted(c) == {Att(c)[k].idx : k \in 1..Len(Att(c))} = 1..Len(get_gate_urls)

NoneResponded(c) == \A k \in 1..Len(Att(c)) : Att(c)[k].outcome \in TransportFailures

\* The attempts of the call ended with a transport failure or a decoded response.
TransportOrResponse(c) ==
    \A k \in 1..Len(Att(c)) : Att(c)[k].outcome \in TransportFailures \cup {"json"}

\* C4: a call ends with SmsAeroConnectionException("All gateways are
\* unavailable") exactly when every gateway of the list was attempted and
\* none produced a response, whatever the mix of TLS and other transport
\* failures.
C4_UnavailableIffAllFailed ==
    \A c \in Calls :
        calls[c].pc = "done" /\ TransportOrResponse(c) =>
            (calls[c].result = AllUnavailable <=> AllAttempted(c) /\ NoneResponded(c))

\* C5: after a TLS failure every later POST attempt of the call uses http.
C5_HttpAfterTls ==
    \A c \in Calls :
        \A k \in 1..Len(Att(c)) :
            Att(c)[k].outcome = "ClientSSLError" =>
                /\ calls[c].proto = "http"
                /\ \A j \in (k + 1)..Len(Att(c)) : Att(c)[j].url.proto = "http"

C5_Witness ==
    \E c \in Calls :
        /\ Len(Att(c)) = 3
        /\ Att(c)[1].url.proto = "https"
        /\ Att(c)[1].outcome = "ClientSSLError"
        /\ Att(c)[2].outcome = "ClientError"
        /\ Att(c)[3].url.proto = "http"

\* C6: a request made without an explicit protocol makes its first POST
\* attempt over https, and an http attempt occurs only after a TLS failure
\* earlier in the same call.
C6_DefaultStartsHttps ==
    \A c \in Calls :
        calls[c].protoArg = "<default>" =>
            /\ Len(Att(c)) >= 1 => Att(c)[1].url.proto = "https"
            /\ \A k \in 1..Len(Att(c)) :
                Att(c)[k].url.proto = "http" =>
                    \E j \in 1..(k - 1) : Att(c)[j].outcome = "ClientSSLError"

\* C7: every failing call fails with a provider error or a connectivity
\* error (SmsAeroException or one of its subclasses), for every response body
\* and every transport outcome.
C7_OnlyProviderOrConnectivityErrors ==
    \A c \in Calls :
        calls[c].pc = "done" /\ calls[c].result.kind # "return" =>
            calls[c].result.kind \in ProviderErrors

-----------------------------------------------------------------------------
(* Properties of check_response (checked under SpecClassify) *)

\* C8: the specific-error rules win over the generic one: a body with result
\* "no credits" raises SmsAeroNoMoneyException("no credits"), a body with
\* result "reject" and a reason raises SmsAeroException(reason), whatever
\* success, message and data are.
C8_SpecificErrorsFirst ==
    classified # Pending /\ content.isMapping =>
        /\ content.result = "no credits" =>
                classified = Raise("SmsAeroNoMoneyException", "no credits")
        /\ content.result = "reject" /\ content.reason # Absent =>
                classified = Raise("SmsAeroException", content.reason)

C8_Witness ==
    /\ classified = Raise("SmsAeroException", "test reason")
    /\ content.result = "reject"
    /\ content.success = JFalse
    /\ content.message = "test message"

GenericFailure(b) ==
    /\ b.isMapping
    /\ b.result \notin {"no credits", "reject"}
    /\ b.success \in {Absent, JNull, JFalse}

\* C9 (as claimed): a body whose result is neither "no credits" nor "reject"
\* and whose success is absent or falsy raises SmsAeroException carrying the
\* body's message, or "Unknown error" when message is absent.
C9_GenericErrorCarriesMessage ==
    classified # Pending /\ GenericFailure(content) =>
        classified = Raise("SmsAeroException",
                           IF content.message = Absent THEN "Unknown error"
                           ELSE content.message)

\* C9 (amended): such a body raises SmsAeroException carrying the body's
\* message when it is a non-empty string, and "Unknown error" when message
\* is absent, null or empty; it never returns data.
C9_GenericErrorMessageOrUnknown ==
    classified # Pending /\ GenericFailure(content) =>
        classified = Raise("SmsAeroException",
                           IF content.message \in {Absent, JNull, ""} THEN "Unknown error"
                           ELSE content.message)

C9_Witness ==
    /\ classified = Raise("SmsAeroException", "Unknown error")
    /\ GenericFailure(content)
    /\ content.message = ""

\* C10: a body with success true (and result neither "no credits" nor
\* "reject") raises nothing and returns its data field unchanged, null when
\* data is absent or null.
C10_SuccessReturnsData ==
    classified # Pending /\ content.isMapping /\ content.success = JTrue
        /\ content.result \notin {"no credits", "reject"} =>
            classified = Return(IF content.data = Absent THEN JNull ELSE content.data)

C10_Witness ==
    /\ classified = Return(JFalse)
    /\ content.success = JTrue
    /\ content.data = JFalse
    /\ content.result = "error"

-----------------------------------------------------------------------------
(* Properties of the transport session (checked under Spec) *)

\* C17: close_session is safe in every session state: it can be called when
\* no session was created, when one is open and when it is closed, it leaves
\* no open session, and it calls close() on the session only when that
\* session is open, so that no session is closed twice.
C17_CloseSessionSafe ==
    /\ [](ENABLED close_session)
    /\ [](closes <= opened)
    /\ [][close_session =>
            /\ sess' # "open"
            /\ closes' = closes + (IF sess = "open" THEN 1 ELSE 0)
            /\ opened' = opened]_vars
    /\ [][closes' # closes => sess = "open" /\ sess' = "closed" /\ closes' = closes + 1]_vars

C17_Witness == sess = "closed" /\ opened = 2 /\ closes = 2

Then(first, second) == IF first.kind # "return" THEN first ELSE second

MinTextLen == 2
MaxTextLen == 640

page_validate(page) ==
    IF page = PyNone THEN Return(None)
    ELSE IF ~IsInt(page) THEN Raise("TypeError", "page must be an integer")
    ELSE IF page.size <= 0 THEN Raise("ValueError", "page must be greater than 0")
    ELSE Return(None)

send_sms_validate(number, text, sign, date_to_send, callback_url) ==
    IF text.type # "str" THEN Raise("TypeError", "text must be a string")
    ELSE IF ~(MinTextLen <= text.size /\ text.size <= MaxTextLen)
    THEN Raise("ValueError", "Length of text must be between 2 and 640")
    ELSE IF sign # PyNone /\ sign.type # "str"
    THEN Raise("TypeError", "sign must be a string")
    ELSE IF date_to_send # PyNone /\ date_to_send.type # "datetime"
    THEN Raise("TypeError", "date_to_send must be a datetime object")
    ELSE IF callback_url # NoUrl /\ callback_url.type # "str"
    THEN Raise("TypeError", "callback_url must be a string")
    ELSE IF callback_url # NoUrl
            /\ ~(callback_url.scheme /\ callback_url.netloc /\ callback_url.path)
    THEN Raise("ValueError", "callback_url must be a valid URL")
    ELSE phone_validation(number)

sms_list_validate(number, text, page) ==
    Then(IF NumberTruthy(number) THEN phone_validation(number) ELSE Return(None),
         IF text # PyNone /\ text.type # "str"
         THEN Raise("TypeError", "text must be a string")
         ELSE page_validate(page))

\* sign and channel are valid strings, the optional arguments None.
viber_send_validate(text, number) ==
    IF text.type # "str" THEN Raise("TypeError", "Text must be a string.")
    ELSE IF ~(MinTextLen <= text.size /\ text.size <= MaxTextLen)
    THEN Raise("ValueError", "Text length must be between 2 and 640 characters.")
    ELSE IF number # NoNumber THEN phone_validation(number)
    ELSE Return(None)

\* The optional arguments are left at None.
contact_add_validate(number) ==
    IF number # NoNumber THEN phone_validation(number) ELSE Return(None)

contact_list_validate(number, page) ==
    Then(IF NumberTruthy(number) THEN phone_validation(number) ELSE Return(None),
         page_validate(page))

fill_nums(number) ==
    IF ~NumberTruthy(number) THEN Raise("ValueError", "Number cannot be empty")
    ELSE Return(None)

\* Mutant: a supplied sign is sent as it is, also when it is empty.
send_sms_data_sign_given(number, text, sign, date_to_send, callback_url) ==
    [text |-> text,
     sign |-> IF sign # PyNone THEN sign ELSE fields.sign,
     callbackUrl |-> callback_url,
     number |-> IF number.kind = "list" THEN AbsentNumber ELSE number,
     numbers |-> IF number.kind = "list" THEN number ELSE AbsentNumber,
     dateSend |-> IF date_to_send.truthy THEN Timestamp(date_to_send) ELSE AbsentKey]

\* The payload send_sms hands to request: text, sign or self.__sign,
\* callbackUrl, the recipients under the key fill_nums chooses, and dateSend
\* if date_to_send is truthy.
send_sms_data(number, text, sign, date_to_send, callback_url) ==
    [text |-> text,
     sign |-> IF sign.truthy THEN sign ELSE fields.sign,
     callbackUrl |-> callback_url,
     number |-> IF number.kind = "list" THEN AbsentNumber ELSE number,
     numbers |-> IF number.kind = "list" THEN number ELSE AbsentNumber,
     dateSend |-> IF date_to_send.truthy THEN Timestamp(date_to_send) ELSE AbsentKey]

WithValidator ==
    {"send_sms", "sms_list", "viber_send", "contact_add", "contact_list",
     "viber_list", "viber_statistics"}

WithNumber ==
    {"send_sms", "sms_list", "contact_add", "contact_list", "viber_send",
     "blacklist_add", "blacklist_list", "hlr_check", "number_operator"}

WithPage ==
    {"sms_list", "sign_list", "group_list", "contact_list", "blacklist_list",
     "viber_list", "viber_statistics"}

Methods == WithValidator \cup WithNumber \cup WithPage \cup {"sms_status", "balance"}

\* Mutant: the endpoints call no validator.
validate_nothing(i) == Return(None)

\* The validator call an endpoint method starts with, if it has one.
validate(i) ==
    CASE i.method = "send_sms" -> send_sms_validate(i.number, i.text, PyNone, PyNone, NoUrl)
      [] i.method = "sms_list" -> sms_list_validate(i.number, i.text, i.page)
      [] i.method = "viber_send" -> viber_send_validate(i.text, i.number)
      [] i.method = "contact_add" -> contact_add_validate(i.number)
      [] i.method = "contact_list" -> contact_list_validate(i.number, i.page)
      [] i.method \in {"viber_list", "viber_statistics"} -> page_validate(i.page)
      [] OTHER -> Return(None)

\* What the method raises while it builds the payload, after its validator.
build_data(i) ==
    IF i.method \in {"send_sms", "blacklist_add", "hlr_check", "number_operator"}
    THEN fill_nums(i.number)
    ELSE Return(None)

\* The number the payload of the call carries ("number"/"numbers" of data).
data_number(i) ==
    CASE i.method \in {"send_sms", "blacklist_add", "hlr_check", "number_operator"} -> i.number
      [] i.method \in {"sms_list", "viber_send", "blacklist_list"} ->
            IF NumberTruthy(i.number) THEN i.number ELSE NoNumber
      [] i.method \in {"contact_add", "contact_list"} -> i.number
      [] OTHER -> NoNumber

\* data.update(self.fill_nums(number)): "numbers" for a list, else "number".
update_nums(d, number) ==
    IF number.kind = "list" THEN [d EXCEPT !.numbers = number]
    ELSE [d EXCEPT !.number = number]

\* The payload the method hands to request (of the keys the model follows).
data_of(i) ==
    CASE i.method = "send_sms" -> send_sms_data(i.number, i.text, PyNone, PyNone, NoUrl)
      [] i.method = "sms_list" ->
            LET nums == IF NumberTruthy(i.number) THEN update_nums(EmptyData, i.number)
                        ELSE EmptyData
            IN IF i.text.truthy THEN [nums EXCEPT !.text = i.text] ELSE nums
      [] i.method = "viber_send" ->
            LET d == [EmptyData EXCEPT !.text = i.text]
            IN IF NumberTruthy(i.number) THEN update_nums(d, i.number) ELSE d
      [] i.method \in {"contact_add", "contact_list"} -> [EmptyData EXCEPT !.number = i.number]
      [] i.method \in {"blacklist_add", "hlr_check", "number_operator"} ->
            update_nums(EmptyData, i.number)
      [] i.method = "blacklist_list" ->
            IF NumberTruthy(i.number) THEN update_nums(EmptyData, i.number) ELSE EmptyData
      [] OTHER -> EmptyData

\* Mutant: sms_status asks the live selector whatever the flag.
selector_status_live(method, flag) ==
    CASE method = "send_sms" -> IF flag THEN "sms/testsend" ELSE "sms/send"
      [] method = "sms_status" -> "sms/status"
      [] method = "sms_list" -> IF flag THEN "sms/testlist" ELSE "sms/list"
      [] method = "balance" -> "balance"
      [] method = "sign_list" -> "sign/list"
      [] method = "group_list" -> "group/list"
      [] method = "contact_add" -> "contact/add"
      [] method = "contact_list" -> "contact/list"
      [] method = "blacklist_add" -> "blacklist/add"
      [] method = "blacklist_list" -> "blacklist/list"
      [] method = "hlr_check" -> "hlr/check"
      [] method = "number_operator" -> "number/operator"
      [] method = "viber_send" -> "viber/send"
      [] method = "viber_list" -> "viber/list"
      [] method = "viber_statistics" -> "viber/statistic"

\* The selector a method passes to request, given self.__test.
selector(method, flag) ==
    CASE method = "send_sms" -> IF flag THEN "sms/testsend" ELSE "sms/send"
      [] method = "sms_status" -> IF flag THEN "sms/teststatus" ELSE "sms/status"
      [] method = "sms_list" -> IF flag THEN "sms/testlist" ELSE "sms/list"
      [] method = "balance" -> "balance"
      [] method = "sign_list" -> "sign/list"
      [] method = "group_list" -> "group/list"
      [] method = "contact_add" -> "contact/add"
      [] method = "contact_list" -> "contact/list"
      [] method = "blacklist_add" -> "blacklist/add"
      [] method = "blacklist_list" -> "blacklist/list"
      [] method = "hlr_check" -> "hlr/check"
      [] method = "number_operator" -> "number/operator"
      [] method = "viber_send" -> "viber/send"
      [] method = "viber_list" -> "viber/list"
      [] method = "viber_statistics" -> "viber/statistic"

\* The page argument as request receives it.
page_of(i) ==
    IF i.method \in WithPage /\ i.page # PyNone THEN <<i.page.size>> ELSE NoPage

\* An invocation: the method, its arguments, and self.__test when it is made.
Invocation(method, number, text, page, flag) ==
    [method |-> method, number |-> number, text |-> text, page |-> page, test |-> flag]

NoInvocation == Invocation("", NoNumber, PyNone, PyNone, FALSE)

\* Numbers the callers pass: none, valid, too short, zero, a string, lists.
SomeNumbers ==
    {NoNumber, One(PyInt(FALSE, MinPhoneLen)), One(PyInt(FALSE, MinPhoneLen - 1)),
     One(PyZero), One(PyStr(MinPhoneLen)), ListOf(<<>>),
     ListOf(<<PyInt(FALSE, MaxPhoneLen)>>), ListOf(<<PyInt(FALSE, MaxPhoneLen + 1)>>)}

SomeTexts == {PyStr(MinTextLen), PyStr(MinTextLen - 1), PyNum(MinTextLen)}

SomePages == {PyNone, PyNum(1), PyNum(0), PyStr(1)}

\* Pages for the methods that hand the page to request as it is (an int:
\* build_url applies int() to it).
IntPages == {PyNone, PyNum(1), PyNum(0), PyNum(-1)}

\* The arguments a method takes vary, the others stay at their defaults.
Arguments(method) ==
    [number : IF method \in WithNumber THEN SomeNumbers ELSE {NoNumber},
     text : IF method \in {"send_sms", "viber_send"} THEN SomeTexts
            ELSE IF method = "sms_list" THEN {PyNone, PyNum(MinTextLen)}
            ELSE {PyNone},
     page : IF method \in {"sms_list", "contact_list", "viber_list", "viber_statistics"}
            THEN SomePages
            ELSE IF method \in {"sign_list", "group_list", "blacklist_list"} THEN IntPages
            ELSE {PyNone}]

\* An endpoint method from its call to its first suspension: the validator,
\* the payload, then request with the selector of the current mode.
do_endpoint(c, method, a) ==
    LET i == Invocation(method, a.number, a.text, a.page, test)
        raised == Then(validate(i), build_data(i))
    IN /\ calls[c].pc = "idle"
       /\ input' = [input EXCEPT ![c] = i]
       /\ IF raised.kind # "return"
          THEN /\ calls' = [calls EXCEPT ![c] = Finish(Idle, raised)]
               /\ UNCHANGED <<sess, opened, closes>>
          ELSE do_request(c, [selector |-> selector(method, test), data |-> data_of(i),
                              page |-> page_of(i),
                              proto |-> "<default>"])

endpoint(c, method, a) ==
    /\ do_endpoint(c, method, a)
    /\ UNCHANGED <<fields, cli, gate, content, classified, test, scope, output>>

\* The caller takes the result (or the exception) of a finished endpoint call.
endpoint_done(c) ==
    /\ calls[c].pc = "done"
    /\ calls' = [calls EXCEPT ![c] = Idle]
    /\ input' = [input EXCEPT ![c] = NoInvocation]
    /\ UNCHANGED <<fields, cli, gate, sess, content, classified, opened, closes, test, scope, output>>

enable_test_mode ==
    /\ test' = TRUE
    /\ UNCHANGED <<fields, cli, gate, sess, calls, content, classified, opened, closes, scope, input, output>>

disable_test_mode ==
    /\ test' = FALSE
    /\ UNCHANGED <<fields, cli, gate, sess, calls, content, classified, opened, closes, scope, input, output>>

\* No POST is awaited: the body of a scope is between two awaits or has ended.
NonePosting == \A c \in Calls : calls[c].pc # "post"

\* __aenter__: async with client.
aenter ==
    /\ scope # "in"
    /\ NoneInFlight
    /\ do_init_session
    /\ scope' = "in"
    /\ UNCHANGED <<fields, cli, gate, calls, content, classified, test, input, output>>

\* Mutant: leaving the scope leaves the session as it is.
aexit_leaves_session ==
    /\ scope = "in"
    /\ NonePosting
    /\ scope' = "left"
    /\ UNCHANGED <<fields, cli, gate, sess, calls, content, classified, opened, closes, test, input, output>>

\* __aexit__: the body has returned, or a call of the body has raised.
aexit ==
    /\ scope = "in"
    /\ NonePosting
    /\ do_close_session
    /\ scope' = "left"
    /\ UNCHANGED <<fields, cli, gate, calls, content, classified, test, input, output>>

\* The bodies the gateway answers with here: a success and a provider error.
ClientBodies ==
    {Body(TRUE, Absent, Absent, JTrue, Absent, "payload"),
     Body(TRUE, "no credits", Absent, JFalse, Absent, Absent)}

InitClient ==
    /\ gate \in UserGates
    /\ test = FALSE
    /\ Fresh
    /\ content = NonMapping
    /\ classified = Pending
    /\ input = [c \in Calls |-> NoInvocation]
    /\ output = Pending

\* The callers use the client one call at a time, and leave the session to
\* the endpoints and to the scope (init_session and close_session called by
\* hand are followed in Spec).
NextClient ==
    \/ aenter
    \/ aexit
    \/ enable_test_mode
    \/ disable_test_mode
    \/ \E c \in Calls, method \in Methods :
            \E a \in Arguments(method) : NoneInFlight /\ endpoint(c, method, a)
    \/ \E c \in Calls, b \in ClientBodies : request_resume(c, "json", b)
    \/ \E c \in Calls : request_resume(c, "ClientError", NonMapping)
    \/ \E c \in Calls : endpoint_done(c)

SpecClient == InitClient /\ [][NextClient]_vars

(***************************************************************************)
(* The command-line entry point (command_line.main_async): one send_sms on  *)
(* a client built with the defaults, inside try / except / finally          *)
(***************************************************************************)
\* The one call the process makes.
CliCall == CHOOSE c \in Calls : \A d \in Calls : c <= d

\* --phone is parsed with type=int and --message with type=str.
CliPhones == {One(PyInt(FALSE, MinPhoneLen)), One(PyInt(FALSE, MinPhoneLen - 1)), One(PyZero)}
CliMessages == {PyStr(MinTextLen), PyStr(MinTextLen - 1)}

\* api = SmsAero(email, api_key); result = await api.send_sms(phone, message)
cli_send(phone, message) ==
    /\ cli.pc = "off"
    /\ do_endpoint(CliCall, "send_sms", [number |-> phone, text |-> message, page |-> PyNone])
    /\ cli' = [cli EXCEPT !.pc = "send"]
    /\ UNCHANGED <<fields, gate, content, classified, test, scope, output>>

\* send_sms has returned or raised: pprint(result), or the except clause
\* (print the error, sys.exit(1)), or neither for another exception.
cli_except ==
    /\ cli.pc = "send"
    /\ calls[CliCall].pc = "done"
    /\ LET kind == calls[CliCall].result.kind IN
        cli' = IF kind = "return"
               THEN [cli EXCEPT !.pc = "finally", !.printed = "result"]
               ELSE IF kind \in ProviderErrors
               THEN [cli EXCEPT !.pc = "finally", !.printed = "error", !.raising = "SystemExit"]
               ELSE [cli EXCEPT !.pc = "finally", !.raising = kind]
    /\ UNCHANGED <<fields, gate, sess, calls, content, classified, opened, closes, test, scope,
                   input, output>>

\* Mutant: close_session follows pprint(result) inside the try block.
cli_finally_after_success_only ==
    /\ cli.pc = "finally"
    /\ IF cli.raising = ""
       THEN do_close_session
       ELSE UNCHANGED <<sess, opened, closes>>
    /\ cli' = [cli EXCEPT !.pc = "end",
                          !.closed = IF cli.raising = "" THEN @ + 1 ELSE @,
                          !.status = IF cli.raising = "" THEN 0 ELSE 1]
    /\ UNCHANGED <<fields, gate, calls, content, classified, test, scope, input, output>>

\* finally: await api.close_session(); then the process ends: with status 0,
\* or with 1 for SystemExit(1) and for an exception nobody caught.
cli_finally ==
    /\ cli.pc = "finally"
    /\ do_close_session
    /\ cli' = [cli EXCEPT !.pc = "end",
                          !.closed = @ + 1,
                          !.status = IF cli.raising = "" THEN 0 ELSE 1]
    /\ UNCHANGED <<fields, gate, calls, content, classified, test, scope, input, output>>

InitCli ==
    /\ gate = NoGate
    /\ test = FALSE
    /\ Fresh
    /\ content = NonMapping
    /\ classified = Pending
    /\ input = [c \in Calls |-> NoInvocation]
    /\ output = Pending

NextCli ==
    \/ \E phone \in CliPhones, message \in CliMessages : cli_send(phone, message)
    \/ \E b \in GatewayBodies : request_resume(CliCall, "json", b)
    \/ request_resume(CliCall, "json", NonMapping)
    \/ \E o \in Outcomes \ {"json"} : request_resume(CliCall, o, NonMapping)
    \/ cli_except
    \/ cli_finally

SpecCli == InitCli /\ [][NextCli]_vars

(***************************************************************************)
(* send_sms on its own, up to the payload it hands to request               *)
(***************************************************************************)
SendSmsInputs ==
    [number : {One(PyInt(FALSE, MinPhoneLen)), One(PyInt(FALSE, MinPhoneLen - 1)),
               ListOf(<<>>), ListOf(<<PyInt(FALSE, MinPhoneLen)>>),
               ListOf(<<PyInt(FALSE, MinPhoneLen), PyInt(FALSE, MaxPhoneLen)>>)},
     text : {PyStr(MinTextLen), PyStr(MinTextLen - 1)},
     sign : {PyNone, PyStr(0), PyStr(5), PyNum(5)},
     date_to_send : {PyNone, PyDate, PyStr(10)},
     callback_url : {NoUrl, Url(TRUE, TRUE, TRUE), Url(TRUE, TRUE, FALSE), UrlOther}]

\* send_sms from its call to the call of request: the validator, the
\* payload, fill_nums.
send_sms_payload ==
    /\ output.kind = "<pending>"
    /\ LET a == input
           raised == Then(send_sms_validate(a.number, a.text, a.sign, a.date_to_send,
                                            a.callback_url),
                          fill_nums(a.number))
       IN output' = IF raised.kind # "return" THEN raised
                    ELSE [kind |-> "return",
                          value |-> send_sms_data(a.number, a.text, a.sign, a.date_to_send,
                                                  a.callback_url)]
    /\ UNCHANGED <<fields, cli, gate, sess, calls, content, classified, opened, closes, test,
                   scope, input>>

InitSendSms ==
    /\ gate = NoGate
    /\ test = FALSE
    /\ Fresh
    /\ content = NonMapping
    /\ classified = Pending
    /\ input \in SendSmsInputs
    /\ output = Pending

SpecSendSms == InitSendSms /\ [][send_sms_payload]_vars

(***************************************************************************)
(* Properties of phone_validation (checked under SpecPhone) *)
(***************************************************************************)
\* An integer of 7 to 15 digits.
PhoneNumber(x) == x.type = "int" /\ 7 <= x.size /\ x.size <= 15

\* C13: phone_validation accepts every integer of 7 to 15 digits and every
\* list of such integers, and raises for everything else, negative numbers
\* included.
C13_AcceptsExactlySevenToFifteenDigits ==
    output # Pending =>
        (output.kind = "return" <=>
            \/ input.kind = "scalar" /\ PhoneNumber(input.items[1])
            \/ input.kind = "list" /\ \A i \in 1..Len(input.items) : PhoneNumber(input.items[i]))

(***************************************************************************)
(* Properties of construction (checked under SpecConstruct) *)
(***************************************************************************)
AcceptableArgs(a) ==
    /\ a.api_key.type = "str" /\ 16 <= a.api_key.size /\ a.api_key.size <= 32
    /\ a.signature.type = "str" /\ a.signature.size >= 2
    /\ a.timeout.type = "int" /\ a.timeout.size > 2
    /\ a.url_gate.kind \in {"none", "str"}
    /\ a.test_mode.type = "bool"

C15_OneEntryForAnyOverrideString ==
    output.kind = "return" =>
        get_gate_urls = IF input.url_gate.kind = "str" THEN <<Render(gate.chars)>>
                        ELSE <<"@gate.smsaero.ru/v2/", "@gate.smsaero.org/v2/",
                               "@gate.smsaero.net/v2/">>

\* C15 (amended): the gateway list has exactly one entry, the normalized
\* override, whenever a non-empty override string was given; with no
\* override or the empty string it is the three built-in gateways in their
\* order.
C15_OneEntryForNonEmptyOverride ==
    output.kind = "return" =>
        get_gate_urls = IF input.url_gate.kind = "str" /\ input.url_gate.chars # <<>>
                        THEN <<Render(gate.chars)>>
                        ELSE <<"@gate.smsaero.ru/v2/", "@gate.smsaero.org/v2/",
                               "@gate.smsaero.net/v2/">>

C15_Witness ==
    /\ output.kind = "return"
    /\ input.url_gate = GateStr(<<>>)
    /\ Len(get_gate_urls) = 3

\* C16: normalizing the gate is idempotent for every override string, and
\* the normalized gate always starts with "@" and ends with "/v2/".
C16_NormalizedGateIsFixedPoint ==
    output.kind = "return" /\ input.url_gate.kind = "str" /\ input.url_gate.chars # <<>> =>
        /\ StartsWith(gate.chars, <<"@">>)
        /\ EndsWith(gate.chars, <<"/", "v2", "/">>)
        /\ check_and_format_user_gate(gate) = gate

(***************************************************************************)
(* Properties of the endpoint methods, test mode and the scope (checked     *)
(* under SpecClient) *)
(***************************************************************************)
BadPage(page) == page # PyNone /\ (~IsInt(page) \/ page.size <= 0)

BadText(text) == text.type # "str" \/ text.size < 2 \/ text.size > 640

BadNumber(number) == phone_validation(number).kind # "return"

\* The input the validator of the method rejects.
Rejected(i) ==
    \/ /\ i.method = "send_sms"
       /\ BadText(i.text) \/ BadNumber(i.number)
    \/ /\ i.method = "sms_list"
       /\ \/ NumberTruthy(i.number) /\ BadNumber(i.number)
          \/ i.text # PyNone /\ i.text.type # "str"
          \/ BadPage(i.page)
    \/ /\ i.method = "viber_send"
       /\ BadText(i.text) \/ (i.number # NoNumber /\ BadNumber(i.number))
    \/ /\ i.method = "contact_add"
       /\ i.number # NoNumber /\ BadNumber(i.number)
    \/ /\ i.method = "contact_list"
       /\ (NumberTruthy(i.number) /\ BadNumber(i.number)) \/ BadPage(i.page)
    \/ /\ i.method \in {"viber_list", "viber_statistics"}
       /\ BadPage(i.page)

\* C11: for every endpoint that has a validator (send_sms, sms_list,
\* viber_send, contact_add, contact_list, viber_list, viber_statistics), input
\* the validator rejects ends the call with TypeError or ValueError before
\* any POST and before a session is created; nothing is retried.
C11_RejectedBeforeAnyPost ==
    /\ [](\A c \in Calls :
            calls[c].pc # "idle" /\ Rejected(input[c]) =>
                /\ calls[c].pc = "done"
                /\ calls[c].result.kind \in {"TypeError", "ValueError"}
                /\ calls[c].attempts = <<>>)
    /\ [][\A c \in Calls :
            calls[c].pc = "idle" /\ calls'[c].pc # "idle" /\ Rejected(input'[c]) =>
                sess' = sess /\ opened' = opened]_vars

C11_Witness ==
    /\ sess = "none"
    /\ opened = 0
    /\ \E c \in Calls :
        /\ input[c].method = "viber_list"
        /\ input[c].page = PyStr(1)
        /\ calls[c].pc = "done"
        /\ calls[c].result.kind = "TypeError"
        /\ calls[c].attempts = <<>>

\* C12: every endpoint that accepts numbers (send_sms, sms_list, contact_add,
\* contact_list, viber_send, blacklist_add, blacklist_list, hlr_check,
\* number_operator) applies the shared phone validator before any network
\* call: a number the validator rejects never reaches a POST.
C12_InvalidNumberNeverPosted ==
    \A c \in Calls :
        /\ input[c].method \in WithNumber
        /\ calls[c].attempts # <<>>
        /\ data_number(input[c]) # NoNumber
        => phone_validation(data_number(input[c])).kind = "return"

\* C19: used as an asynchronous context manager the client has an open
\* session throughout the body, and the session is closed when the scope is
\* left, by normal exit or by a call of the body raising.
C19_ScopeOpensAndCloses ==
    /\ [](scope = "in" => sess = "open")
    /\ [][scope # "in" /\ scope' = "in" => sess' = "open"]_vars
    /\ [][scope = "in" /\ scope' # "in" => sess' = "closed" /\ closes' = closes + 1]_vars

C19_Witness ==
    /\ scope = "left"
    /\ sess = "closed"
    /\ \E c \in Calls :
        /\ calls[c].pc = "done"
        /\ calls[c].result.kind = "ValueError"

\* The selectors of the three operations that have a test variant.
TestSelector(method, flag) ==
    CASE method = "send_sms" -> IF flag THEN "sms/testsend" ELSE "sms/send"
      [] method = "sms_status" -> IF flag THEN "sms/teststatus" ELSE "sms/status"
      [] method = "sms_list" -> IF flag THEN "sms/testlist" ELSE "sms/list"

\* C20: the test-mode flag changes the selector of send_sms, sms_status and
\* sms_list only (sms/testsend, sms/teststatus, sms/testlist instead of
\* sms/send, sms/status, sms/list), by the value of the flag when the call is
\* made, after any sequence of enable/disable; no other operation is
\* affected.
C20_TestModeSelectsTestSelectors ==
    /\ [](\A c \in Calls : \A k \in 1..Len(calls[c].attempts) :
            calls[c].attempts[k].url.selector =
                IF input[c].method \in {"send_sms", "sms_status", "sms_list"}
                THEN TestSelector(input[c].method, input[c].test)
                ELSE selector(input[c].method, ~input[c].test))
    /\ [][\A c \in Calls :
            calls[c].pc = "idle" /\ calls'[c].pc # "idle" => input'[c].test = test]_vars
    /\ [][enable_test_mode => test']_vars
    /\ [][disable_test_mode => ~test']_vars

C20_Witness ==
    /\ ~test
    /\ \E c \in Calls :
        /\ input[c].method = "sms_status"
        /\ input[c].test
        /\ calls[c].pc = "post"
        /\ calls[c].attempts[1].url.selector = "sms/teststatus"

(***************************************************************************)
(* Properties of the payload of send_sms (checked under SpecSendSms) *)
(***************************************************************************)
\* What the claim says of the payload, apart from its sign.
PayloadShape(d, a) ==
    /\ d.text = a.text
    /\ d.callbackUrl = a.callback_url
    /\ d.callbackUrl # AbsentUrl
    /\ a.number.kind = "scalar" => d.number = a.number /\ d.numbers = AbsentNumber
    /\ a.number.kind = "list" => d.numbers = a.number /\ d.number = AbsentNumber
    /\ d.dateSend # AbsentKey <=> a.date_to_send # PyNone

\* C21 (as claimed): the payload of send_sms always has text, sign and
\* callbackUrl (null when no callback is supplied), the client's signature
\* when no sign is supplied and the supplied sign otherwise, the recipient
\* under "number" for one int and "numbers" for a list, and dateSend only
\* when a send date is supplied.
C21_PayloadCarriesSuppliedSign ==
    output.kind = "return" =>
        /\ PayloadShape(output.value, input)
        /\ output.value.sign = IF input.sign = PyNone THEN fields.sign ELSE input.sign

\* C21 (amended): as above, but the payload carries the client's signature
\* when no sign or an empty sign is supplied, and the supplied sign when it
\* is a non-empty string.
C21_PayloadCarriesNonEmptySign ==
    output.kind = "return" =>
        /\ PayloadShape(output.value, input)
        /\ output.value.sign = IF input.sign \in {PyNone, PyStr(0)} THEN fields.sign
                               ELSE input.sign

C21_Witness ==
    /\ output.kind = "return"
    /\ input.sign = PyStr(0)
    /\ output.value.sign = PyStr(8)
    /\ input.number.kind = "list"
    /\ output.value.numbers = input.number
    /\ input.date_to_send = PyDate
    /\ output.value.dateSend = Timestamp(PyDate)
    /\ output.value.callbackUrl = NoUrl

(***************************************************************************)
(* Properties of the command-line entry point (checked under SpecCli) *)
(***************************************************************************)
\* C22: in the command-line entry point, whenever send_sms raises a provider
\* exception (generic, insufficient funds or connectivity) the process
\* prints the error and exits with status 1, and on every outcome of
\* send_sms (result, provider exception or another exception) close_session
\* is called before the process ends.
C22_CliExitsOneAndAlwaysCloses ==
    /\ [](cli.pc = "end" =>
            /\ cli.closed = 1
            /\ sess # "open"
            /\ calls[CliCall].result.kind \in ProviderErrors =>
                    cli.status = 1 /\ cli.printed = "error")
    /\ [][cli.pc # "end" /\ cli'.pc = "end" =>
            /\ cli'.closed = cli.closed + 1
            /\ closes' = closes + (IF sess = "open" THEN 1 ELSE 0)]_vars

C22_Witness ==
    /\ cli.pc = "end"
    /\ calls[CliCall].result.kind = "SmsAeroNoMoneyException"
    /\ cli.status = 1
    /\ cli.printed = "error"
    /\ cli.closed = 1
    /\ sess = "closed"

(***************************************************************************)
(* Properties of concurrent calls (checked under SpecConcurrent) *)
(***************************************************************************)
\* The protocol a call was started with.
OwnProtocol(cl) == IF cl.protoArg = "<default>" THEN "http" ELSE cl.protoArg

\* A TLS failure among the attempts of the call before its k-th.
DowngradedBefore(cl, k) ==
    \E j \in 1..(k - 1) : cl.attempts[j].outcome = "ClientSSLError"

\* C23: two request calls on the same client run their fallback loops
\* independently: the gateway position and the protocol of a call are not
\* changed by another call, so a TLS downgrade in one call affects neither a
\* concurrently running call nor a later one; each call starts at the first
\* gateway with its own protocol argument.
C23_CallsAreIndependent ==
    /\ [](\A c \in Calls : \A k \in 1..Len(calls[c].attempts) :
            /\ calls[c].attempts[k].idx = k
            /\ calls[c].attempts[k].url.gate = get_gate_urls[k]
            /\ calls[c].attempts[k].url.proto =
                    IF DowngradedBefore(calls[c], k) THEN "http" ELSE OwnProtocol(calls[c]))
    /\ [][\A c, d \in Calls : c # d /\ calls'[c] # calls[c] => calls'[d] = calls[d]]_vars

C23_Witness ==
    \E c, d \in Calls :
        /\ c # d
        /\ calls[c].pc = "post"
        /\ calls[c].protoArg = "https"
        /\ Len(calls[c].attempts) = 2
        /\ calls[c].attempts[1].outcome = "ClientSSLError"
        /\ calls[c].attempts[2].url.proto = "http"
        /\ calls[d].pc = "post"
        /\ calls[d].protoArg = "https"
        /\ Len(calls[d].attempts) = 1
        /\ calls[d].attempts[1].url.proto = "https"

(***************************************************************************)
(* Properties of timeouts (checked under Spec) *)
(***************************************************************************)
\* C24: when a POST attempt exceeds the configured timeout the engine
\* abandons that gateway and advances to the next one, as for a DNS failure
\* or a refused connection; a timeout ends the call only on the last
\* gateway, and then with the connectivity error.
C24_TimeoutAdvancesToNextGateway ==
    \A c \in Calls : \A k \in 1..Len(calls[c].attempts) :
        calls[c].attempts[k].outcome = "TimeoutError" /\ sess = "open" =>
            IF k < Len(get_gate_urls)
            THEN Len(calls[c].attempts) > k
            ELSE calls[c].result =
                    Raise("SmsAeroConnectionException", "All gateways are unavailable")

(***************************************************************************)
(* Properties of the page argument (checked under SpecClient) *)
(***************************************************************************)
\* C25: every operation that accepts a page (sms_list, sign_list,
\* group_list, contact_list, blacklist_list, viber_list, viber_statistics)
\* validates it before any network call: a page that is not an int raises
\* TypeError, a page <= 0 raises ValueError, and no URL with a non-positive
\* page is ever posted.
C25_PageValidatedBeforePost ==
    \A c \in Calls :
        input[c].method \in {"sms_list", "sign_list", "group_list", "contact_list",
                             "blacklist_list", "viber_list", "viber_statistics"} =>
            /\ calls[c].pc # "idle" /\ input[c].page # PyNone /\ input[c].page.type # "int"
                    /\ ~Rejected([input[c] EXCEPT !.page = PyNone])
                    => calls[c].result.kind = "TypeError"
            /\ calls[c].pc # "idle" /\ input[c].page.type = "int" /\ input[c].page.size <= 0
                    /\ ~Rejected([input[c] EXCEPT !.page = PyNone])
                    => calls[c].result.kind = "ValueError"
            /\ \A k \in 1..Len(calls[c].attempts) :
                    \/ calls[c].attempts[k].url.query = <<>>
                    \/ calls[c].attempts[k].url.query[1] > 0

(***************************************************************************)
(* Properties of the progress of a call (checked under SpecFair) *)
(***************************************************************************)
InFlight(cl) == {k \in 1..Len(cl.attempts) : cl.attempts[k].outcome = "pending"}

\* C26: every request call terminates, and its POST attempts are strictly
\* sequential: at most one attempt of a call is in flight at a time, and the
\* call makes at most one POST attempt per gateway of the list (at most 3
\* with the defaults, 1 with an override), whatever the transport failures.
C26_TerminatesOneAttemptPerGateway ==
    /\ [](\A c \in Calls :
            /\ InFlight(calls[c]) = IF calls[c].pc = "post" THEN {Len(calls[c].attempts)} ELSE {}
            /\ \A j, k \in 1..Len(calls[c].attempts) :
                    j < k => calls[c].attempts[j].url.gate # calls[c].attempts[k].url.gate
            /\ Len(calls[c].attempts) <= (IF gate = NoGate THEN 3 ELSE 1))
    /\ \A c \in Calls : calls[c].pc = "post" ~> calls[c].pc = "done"

C26_Witness ==
    \E c \in Calls :
        /\ calls[c].pc = "done"
        /\ Len(calls[c].attempts) = 3
        /\ calls[c].attempts[1].outcome = "ClientSSLError"
        /\ calls[c].attempts[2].outcome = "ContentTypeError"
        /\ calls[c].attempts[3].outcome = "ClientError"
        /\ calls[c].result = Raise("SmsAeroConnectionException", "All gateways are unavailable")

(***************************************************************************)
(* Properties of the client's fields and of the attempts of one call        *)
(* (checked under SpecClient) *)
(***************************************************************************)
\* C27: after construction no operation changes the client's email, API
\* key, signature, timeout or gate: every sequence of requests (successful
\* or failing), test-mode toggles and openings and closings of the session
\* leaves them as the constructor set them.
C27_FieldsFixedAfterConstruction ==
    /\ [](fields = DefaultFields)
    /\ [](gate \in UserGates)
    /\ [][fields' = fields /\ gate' = gate]_vars

C27_Witness ==
    /\ test = TRUE
    /\ sess = "closed"
    /\ opened = 2
    /\ fields = DefaultFields
    /\ gate = NoGate
    /\ \E c \in Calls :
        /\ calls[c].pc = "done"
        /\ calls[c].result.kind = "SmsAeroNoMoneyException"

\* C29: all POST attempts of one call carry the same selector, payload, page
\* and timeout (the timeout given at construction): they are fixed when the
\* call starts, only the gateway and the protocol differ between attempts;
\* toggling test mode while a send_sms call is suspended does not change
\* the selector of its later attempts.
C29_AttemptsCarryTheCallsArguments ==
    \A c \in Calls : \A k \in 1..Len(calls[c].attempts) :
        /\ calls[c].attempts[k].url.selector = selector(input[c].method, input[c].test)
        /\ calls[c].attempts[k].url.query =
                (IF page_of(input[c]) # NoPage /\ input[c].page.size # 0
                 THEN <<input[c].page.size>> ELSE <<>>)
        /\ calls[c].attempts[k].data = data_of(input[c])
        /\ calls[c].attempts[k].timeout = DefaultFields.time
        /\ calls[c].attempts[k].url.selector = calls[c].attempts[1].url.selector
        /\ calls[c].attempts[k].url.query = calls[c].attempts[1].url.query
        /\ calls[c].attempts[k].data = calls[c].attempts[1].data
        /\ calls[c].attempts[k].timeout = calls[c].attempts[1].timeout

C29_Witness ==
    /\ test = TRUE
    /\ \E c \in Calls :
        /\ input[c].method = "send_sms"
        /\ input[c].test = FALSE
        /\ calls[c].pc = "post"
        /\ Len(calls[c].attempts) = 3
        /\ calls[c].attempts[3].url.selector = "sms/send"
        /\ calls[c].attempts[3].data.number = One(PyInt(FALSE, 7))

(***************************************************************************)
(* Properties of the session under requests (C28 checked under Spec, C30   *)
(* under SpecConcurrent) *)
(***************************************************************************)
\* C28: every POST attempt is made on a session that exists and is open at
\* the moment of the attempt, also when close_session runs while a request
\* is suspended at its POST and the request then moves on to a later
\* gateway.  (A POST on a closed session is what aiohttp answers with
\* RuntimeError "Session is closed".)
C28_PostOnlyOnOpenSession ==
    \A c \in Calls :
        /\ calls[c].result # Raise("RuntimeError", "Session is closed")
        /\ calls[c].result # Raise("SmsAeroConnectionException", "Session is not initialized")

FailedResult(res) ==
    \/ res.kind \in {"SmsAeroException", "SmsAeroNoMoneyException"}
    \/ res = Raise("SmsAeroConnectionException", "All gateways are unavailable")

====
